---- MODULE Spec2Model ----
(***************************************************************************)
(* A model of generate_gif.py (claude-pulse): the bar renderer, the two    *)
(* frame composers and the three generation runs of main.                  *)
(*                                                                         *)
(* Conventions.  A Python str that the code inspects character by          *)
(* character is a sequence of one-character strings; a literal label the   *)
(* code only concatenates is kept as one atom.  A percentage is a rational *)
(* <<num, den>> with den > 0 (an int p is <<p, 1>>); the code computes     *)
(* with IEEE doubles, and on every input the specifications below draw the *)
(* double computation and the exact one give the same clamped cell count.  *)
(* Non-finite doubles (inf, nan) are outside the model.                    *)
(***************************************************************************)
EXTENDS Integers, Sequences, FiniteSets, TLC

VARIABLES
    THEME_CSS,       \* module global: theme name -> {low, mid, high}
    RAINBOW_COLORS,  \* module global: the list of ten shimmer colors
    bar_call,        \* arguments of the render_bar_html call under test
    bar_out,         \* its return value (<<>> before the call)
    call,            \* descriptor of the composer call under test
    doc,             \* its outcome (kind "pending" before the call)
    composed,        \* log: the <<call, outcome>> pairs of SpecPure, in order
    pc,              \* main: position in the function
    run,             \* main: which of the three generation runs
    frames_data,     \* main: frames_data / update_frames / cc_update_frames
    t_idx,           \* main: index of the outer theme loop
    s_idx,           \* main: index of the inner scenario loop
    offset,          \* main: loop variable of range(10)
    tmp_dir,         \* main: tmp_dir / tmp_dir2 / tmp_dir3
    html_paths,      \* main: html_paths / html_paths2 / html_paths3
    total,           \* main: total / total2 / total3
    i,               \* main: enumerate index of the generation loop
    calls,           \* log: per run, the composer calls made, in order
    fs,              \* the file system: path -> content
    writes,          \* log: every write_text, in order
    dirs             \* the directories mkdtemp has created, in order

vars == <<THEME_CSS, RAINBOW_COLORS, bar_call, bar_out, call, doc, composed,
          pc, run, frames_data, t_idx, s_idx, offset, tmp_dir, html_paths,
          total, i, calls, fs, writes, dirs>>

globals == <<THEME_CSS, RAINBOW_COLORS>>
barVars == <<bar_call, bar_out>>
composeVars == <<call, doc, composed>>
mainVars == <<pc, run, frames_data, t_idx, s_idx, offset, tmp_dir,
              html_paths, total, i, calls, fs, writes, dirs>>

(***************************************************************************)
(* Bounds of the model.                                                    *)
(***************************************************************************)
MaxOver == 12      \* percentages range over -MaxOver .. 100 + MaxOver
MaxWidth == 12     \* bar widths range over 1 .. MaxWidth
MaxOffset == 10    \* rotation offsets range over 0 .. MaxOffset
NumDirNames == 3   \* names mkdtemp chooses among
MaxCalls == 4      \* calls made in a behaviour of SpecPure

(***************************************************************************)
(* Module-level tables.                                                    *)
(***************************************************************************)
THEME_CSS_INIT ==
    [n \in {"default", "ocean", "sunset", "neon", "frost", "ember", "candy",
            "pride", "mono", "rainbow"} |->
       CASE n = "default" -> [low |-> "#22c55e", mid |-> "#eab308", high |-> "#ef4444"]
         [] n = "ocean"   -> [low |-> "#06b6d4", mid |-> "#3b82f6", high |-> "#a855f7"]
         [] n = "sunset"  -> [low |-> "#eab308", mid |-> "#ff8800", high |-> "#ef4444"]
         [] n = "neon"    -> [low |-> "#4ade80", mid |-> "#facc15", high |-> "#f87171"]
         [] n = "frost"   -> [low |-> "#afffff", mid |-> "#5fafff", high |-> "#ffffff"]
         [] n = "ember"   -> [low |-> "#ffd700", mid |-> "#ff5f00", high |-> "#f87171"]
         [] n = "candy"   -> [low |-> "#ff87ff", mid |-> "#af87ff", high |-> "#00ffff"]
         [] n = "pride"   -> [low |-> "#af5fff", mid |-> "#00ffaf", high |-> "#ff00af"]
         [] n = "mono"    -> [low |-> "#d1d5db", mid |-> "#d1d5db", high |-> "#ffffff"]
         [] n = "rainbow" -> [low |-> "#ff0000", mid |-> "#00ff00", high |-> "#ff00ff"]]

DIM_COLOR == "#3a3a3a"

RAINBOW_COLORS_INIT ==
    <<"#ff0000", "#ff8800", "#ffff00", "#00ff00", "#00ccff",
      "#0066ff", "#8800ff", "#ff00ff", "#ff0066", "#ff4444">>

FILLED_GLYPH == "U+2501"   \* the heavy horizontal line of a filled cell
EMPTY_GLYPH == "U+2500"    \* the light horizontal line of an empty cell

(***************************************************************************)
(* Python primitives.                                                      *)
(***************************************************************************)
Min(a, b) == IF a < b THEN a ELSE b
Max(a, b) == IF a > b THEN a ELSE b

\* Faulty variant: a tie is rounded upward.
PyRound_half_up(n, d) ==
    LET q == n \div d
        r == n % d
    IN  IF 2 * r < d THEN q ELSE q + 1

\* round(n / d) for d > 0: to the nearest integer, a tie to the even one.
PyRound(n, d) ==
    LET q == n \div d
        r == n % d
    IN  IF 2 * r < d THEN q
        ELSE IF 2 * r > d THEN q + 1
        ELSE IF q % 2 = 0 THEN q ELSE q + 1

\* s * k for a one-character str s.
Repeat(s, k) == [x \in 1..k |-> s]

\* pct >= bound for a rational pct and an int bound.
RatGeq(pct, bound) == pct[1] >= bound * pct[2]

(***************************************************************************)
(* bar_color and render_bar_html.                                          *)
(***************************************************************************)
\* Faulty variant: the mid tier starts above 50 instead of at 50.
bar_color_mid_above_50(pct, theme) ==
    IF RatGeq(pct, 80) THEN theme.high
    ELSE IF pct[1] > 50 * pct[2] THEN theme.mid
    ELSE theme.low

bar_color(pct, theme) ==
    IF RatGeq(pct, 80) THEN theme.high
    ELSE IF RatGeq(pct, 50) THEN theme.mid
    ELSE theme.low

\* <span style="color:{color}">{body}</span>
Span(color, body) == [cls |-> "bar", color |-> color, body |-> body]

\* Faulty variant: the clamp of line 69 is missing.
filled_cells_unclamped(pct, width) == PyRound(pct[1] * width, 100 * pct[2])

\* Faulty variant: int() instead of round().
filled_cells_truncated(pct, width) ==
    Max(0, Min(width, (pct[1] * width) \div (100 * pct[2])))

\* filled = round(pct / 100 * width); filled = max(0, min(width, filled))

filled_cells(pct, width) ==
    Max(0, Min(width, PyRound(pct[1] * width, 100 * pct[2])))

\* Faulty variant: the rotation offset is ignored.
rainbow_cell_unrotated(j, color_offset) ==
    RAINBOW_COLORS[(j % Len(RAINBOW_COLORS)) + 1]

\* RAINBOW_COLORS[(j + color_offset) % len(RAINBOW_COLORS)], j counted from 0
rainbow_cell(j, color_offset) ==
    RAINBOW_COLORS[((j + color_offset) % Len(RAINBOW_COLORS)) + 1]

render_bar_html(pct, theme, width, rainbow, color_offset) ==
    LET filled == filled_cells(pct, width)
        empty == width - filled
        e_chars == Repeat(EMPTY_GLYPH, empty)
    IN  IF rainbow /\ filled > 0
        THEN [j \in 1..filled |->
                 Span(rainbow_cell(j - 1, color_offset), <<FILLED_GLYPH>>)]
             \o <<Span(DIM_COLOR, e_chars)>>
        ELSE <<Span(bar_color(pct, theme), Repeat(FILLED_GLYPH, filled)),
               Span(DIM_COLOR, e_chars)>>

(***************************************************************************)
(* String formatting and parsing.                                          *)
(***************************************************************************)
DigitChar(k) ==
    CASE k = 0 -> "0" [] k = 1 -> "1" [] k = 2 -> "2" [] k = 3 -> "3"
      [] k = 4 -> "4" [] k = 5 -> "5" [] k = 6 -> "6" [] k = 7 -> "7"
      [] k = 8 -> "8" [] k = 9 -> "9"

DigitValue(c) ==
    CASE c = "0" -> 0 [] c = "1" -> 1 [] c = "2" -> 2 [] c = "3" -> 3
      [] c = "4" -> 4 [] c = "5" -> 5 [] c = "6" -> 6 [] c = "7" -> 7
      [] c = "8" -> 8 [] c = "9" -> 9

IsDigit(c) == c \in {"0", "1", "2", "3", "4", "5", "6", "7", "8", "9"}

\* The decimal digits of n >= 0, most significant first.
RECURSIVE Digits(_)
Digits(n) == IF n < 10 THEN <<DigitChar(n)>>
             ELSE Digits(n \div 10) \o <<DigitChar(n % 10)>>

\* str(n) for an int n.
IntStr(n) == IF n < 0 THEN <<"-">> \o Digits(-n) ELSE Digits(n)

\* f"{n:3d}": right-justified with spaces in a field of at least 3.
Fmt3d(n) == Repeat(" ", Max(0, 3 - Len(IntStr(n)))) \o IntStr(n)

\* f"{n:03d}" for n >= 0: zero-padded to at least 3 digits.
Fmt03d(n) == Repeat("0", Max(0, 3 - Len(Digits(n)))) \o Digits(n)

\* s.replace("£", "")
StripPound(s) == SelectSeq(s, LAMBDA c : c # "£")

\* The value of a digit string, most significant digit first.
RECURSIVE DigitsValue(_)
DigitsValue(s) ==
    IF s = <<>> THEN 0
    ELSE 10 * DigitsValue(SubSeq(s, 1, Len(s) - 1)) + DigitValue(s[Len(s)])

RECURSIVE Pow10(_)
Pow10(k) == IF k = 0 THEN 1 ELSE 10 * Pow10(k - 1)

\* float(s) on unsigned decimal literals: digits with at most one point and at
\* least one digit.  Any other string drawn here raises ValueError.
PyFloat(s) ==
    LET points == {k \in 1..Len(s) : s[k] = "."}
        digits == SelectSeq(s, IsDigit)
        wellFormed == /\ \A k \in 1..Len(s) : IsDigit(s[k]) \/ s[k] = "."
                      /\ Cardinality(points) <= 1
                      /\ Len(digits) >= 1
        decimals == IF points = {} THEN 0
                    ELSE Len(s) - (CHOOSE k \in points : TRUE)
    IN  IF wellFormed
        THEN [ok |-> TRUE, num |-> DigitsValue(digits), den |-> Pow10(decimals)]
        ELSE [ok |-> FALSE, num |-> 0, den |-> 1]

(***************************************************************************)
(* The status line shared by both composers.                               *)
(***************************************************************************)
Sl(body) == [cls |-> "sl", color |-> "#d1d5db", body |-> body]
sep == [cls |-> "sep", color |-> "#555", body |-> <<"|">>]
Badge(label) == [cls |-> "bold", color |-> "#eab308", body |-> <<"&#x2191; ", label>>]

Raise(error) == [kind |-> "raise", error |-> error]

\* Faulty variant: the placeholder of an absent countdown is one space short.
reset_str_short_placeholder(reset_time) ==
    IF reset_time # <<>> THEN <<" ">> \o reset_time ELSE Repeat(" ", 6)

\* reset_str = f" {reset_time}" if reset_time else "       "
reset_str(reset_time) ==
    IF reset_time # <<>> THEN <<" ">> \o reset_time ELSE Repeat(" ", 7)

\* f" {pct:3d}%"
PctText(pct) == <<" ">> \o Fmt3d(pct) \o <<"%">>

\* Faulty variant: the three bars share one rotation offset.
core_status_lockstep(theme, session_pct, weekly_pct, ctx_pct, reset_time, is_rainbow, color_offset) ==
    <<Sl(<<"Session ">>)>>
    \o render_bar_html(<<session_pct, 1>>, theme, 10, is_rainbow, color_offset)
    \o <<Sl(PctText(session_pct) \o reset_str(reset_time)), sep,
         Sl(<<"Weekly ">>)>>
    \o render_bar_html(<<weekly_pct, 1>>, theme, 10, is_rainbow, color_offset)
    \o <<Sl(PctText(weekly_pct)), sep, Sl(<<"Context ">>)>>
    \o render_bar_html(<<ctx_pct, 1>>, theme, 10, is_rainbow, color_offset)
    \o <<Sl(PctText(ctx_pct))>>

\* The three core bars and their percentage texts.
core_status(theme, session_pct, weekly_pct, ctx_pct, reset_time, is_rainbow, color_offset) ==
    <<Sl(<<"Session ">>)>>
    \o render_bar_html(<<session_pct, 1>>, theme, 10, is_rainbow, color_offset)
    \o <<Sl(PctText(session_pct) \o reset_str(reset_time)), sep,
         Sl(<<"Weekly ">>)>>
    \o render_bar_html(<<weekly_pct, 1>>, theme, 10, is_rainbow, color_offset + 3)
    \o <<Sl(PctText(weekly_pct)), sep, Sl(<<"Context ">>)>>
    \o render_bar_html(<<ctx_pct, 1>>, theme, 10, is_rainbow, color_offset + 6)
    \o <<Sl(PctText(ctx_pct))>>

\* sep, plan, sep, model
status_tail(plan, model) == <<sep, Sl(<<plan>>), sep, Sl(<<model>>)>>

(***************************************************************************)
(* generate_frame_html.  The outcome is the document, or the exception     *)
(* that leaves the function.  Of the document the record keeps what the    *)
(* template interpolates; the static markup and the mascot are left out.   *)
(***************************************************************************)
\* Faulty variant: a zero limit is taken as 0% instead of raising.
extra_pct_zero_guarded(extra_used, extra_limit) ==
    LET u == PyFloat(StripPound(extra_used))
        l == PyFloat(StripPound(extra_limit))
    IN  IF ~u.ok THEN Raise("ValueError")
        ELSE IF ~l.ok THEN Raise("ValueError")
        ELSE IF l.num = 0 THEN [kind |-> "float", num |-> 0, den |-> 1]
        ELSE [kind |-> "float", num |-> 100 * u.num * l.den, den |-> u.den * l.num]

\* extra_pct = 100 * float(extra_used.replace("£", "")) / float(extra_limit.replace("£", ""))
extra_pct(extra_used, extra_limit) ==
    LET u == PyFloat(StripPound(extra_used))
        l == PyFloat(StripPound(extra_limit))
    IN  IF ~u.ok THEN Raise("ValueError")
        ELSE IF ~l.ok THEN Raise("ValueError")
        ELSE IF l.num = 0 THEN Raise("ZeroDivisionError")
        ELSE [kind |-> "float", num |-> 100 * u.num * l.den, den |-> u.den * l.num]

extra_part(theme, is_rainbow, color_offset, extra_used, extra_limit) ==
    IF extra_used # <<>> /\ extra_limit # <<>>
    THEN LET p == extra_pct(extra_used, extra_limit)
         IN  <<sep, Sl(<<"Extra ">>)>>
             \o render_bar_html(<<p.num, p.den>>, theme, 10, is_rainbow,
                                color_offset + 9)
             \o <<Sl(<<" ">> \o extra_used \o <<"/">> \o extra_limit)>>
    ELSE <<>>

generate_frame_html(theme_name, theme, session_pct, weekly_pct, ctx_pct, reset_time, plan, model, frame_num, total_frames, desc, is_rainbow, color_offset, extra_used, extra_limit, show_update) ==
    LET supplied == extra_used # <<>> /\ extra_limit # <<>>
        update_part == IF show_update THEN <<sep, Badge("Pulse Update")>> ELSE <<>>
    IN  IF supplied /\ extra_pct(extra_used, extra_limit).kind = "raise"
        THEN extra_pct(extra_used, extra_limit)
        ELSE [kind |-> "frame",
              status |-> core_status(theme, session_pct, weekly_pct, ctx_pct,
                                     reset_time, is_rainbow, color_offset)
                         \o extra_part(theme, is_rainbow, color_offset,
                                       extra_used, extra_limit)
                         \o update_part
                         \o status_tail(plan, model),
              badge_color |-> theme.low,
              model |-> model,
              theme_name |-> theme_name,
              counter |-> IntStr(frame_num) \o <<"/">> \o IntStr(total_frames)]

(***************************************************************************)
(* generate_statusline_html.  Its template interpolates the status line    *)
(* only: theme_name, frame_num and total_frames are accepted and unused.   *)
(***************************************************************************)
\* Faulty variant: the second badge is assigned (=) instead of appended (+=).
generate_statusline_html_one_badge(theme_name, theme, session_pct, weekly_pct, ctx_pct, reset_time, plan, model, frame_num, total_frames, is_rainbow, color_offset, show_update, show_claude_update) ==
    LET pulse == IF show_update THEN <<sep, Badge("Pulse Update")>> ELSE <<>>
        update_part == IF show_claude_update
                       THEN <<sep, Badge("Claude Update")>>
                       ELSE pulse
    IN  [kind |-> "statusline",
         status |-> core_status(theme, session_pct, weekly_pct, ctx_pct,
                                reset_time, is_rainbow, color_offset)
                    \o update_part
                    \o status_tail(plan, model)]

generate_statusline_html(theme_name, theme, session_pct, weekly_pct, ctx_pct, reset_time, plan, model, frame_num, total_frames, is_rainbow, color_offset, show_update, show_claude_update) ==
    LET pulse == IF show_update THEN <<sep, Badge("Pulse Update")>> ELSE <<>>
        update_part == IF show_claude_update
                       THEN pulse \o <<sep, Badge("Claude Update")>>
                       ELSE pulse
    IN  [kind |-> "statusline",
         status |-> core_status(theme, session_pct, weekly_pct, ctx_pct,
                                reset_time, is_rainbow, color_offset)
                    \o update_part
                    \o status_tail(plan, model)]

(***************************************************************************)
(* Resting values of the three groups of variables.                        *)
(***************************************************************************)
GlobalsInit ==
    /\ THEME_CSS = THEME_CSS_INIT
    /\ RAINBOW_COLORS = RAINBOW_COLORS_INIT

BarIdle ==
    /\ bar_call = [pct |-> 0, theme_name |-> "default", width |-> 1,
                   rainbow |-> FALSE, color_offset |-> 0]
    /\ bar_out = <<>>

ComposeIdle ==
    /\ call = [fn |-> "none"]
    /\ doc = [kind |-> "pending"]
    /\ composed = <<>>

MainIdle ==
    /\ pc = "idle"
    /\ run = 0
    /\ frames_data = [r \in 1..3 |-> <<>>]
    /\ t_idx = 0
    /\ s_idx = 0
    /\ offset = 0
    /\ tmp_dir = [r \in 1..3 |-> <<>>]
    /\ html_paths = [r \in 1..3 |-> <<>>]
    /\ total = [r \in 1..3 |-> 0]
    /\ i = 0
    /\ calls = [r \in 1..3 |-> <<>>]
    /\ fs = {}
    /\ writes = <<>>
    /\ dirs = <<>>

(***************************************************************************)
(* SpecBar: one call of render_bar_html on arguments drawn from the        *)
(* bounded sets.                                                           *)
(***************************************************************************)
ThemeNames == DOMAIN THEME_CSS_INIT

BarCalls ==
    [pct : (0 - MaxOver)..(100 + MaxOver),
     theme_name : ThemeNames,
     width : 1..MaxWidth,
     rainbow : BOOLEAN,
     color_offset : 0..MaxOffset]

InitBar ==
    /\ GlobalsInit
    /\ bar_call \in BarCalls
    /\ bar_out = <<>>
    /\ ComposeIdle
    /\ MainIdle

RenderBar ==
    /\ bar_out = <<>>
    /\ bar_out' = render_bar_html(<<bar_call.pct, 1>>,
                                  THEME_CSS[bar_call.theme_name],
                                  bar_call.width, bar_call.rainbow,
                                  bar_call.color_offset)
    /\ UNCHANGED <<globals, bar_call, composeVars, mainVars>>

NextBar == RenderBar

SpecBar == InitBar /\ [][NextBar]_vars

\* The glyphs of a bar, left to right, and the color of each.
RECURSIVE Glyphs(_)
Glyphs(bar) ==
    IF bar = <<>> THEN <<>> ELSE Head(bar).body \o Glyphs(Tail(bar))

RECURSIVE CellColors(_)
CellColors(bar) ==
    IF bar = <<>> THEN <<>>
    ELSE Repeat(Head(bar).color, Len(Head(bar).body)) \o CellColors(Tail(bar))

FilledCount(bar) ==
    Cardinality({k \in 1..Len(Glyphs(bar)) : Glyphs(bar)[k] = FILLED_GLYPH})

BarDone == bar_out # <<>>

\* C1: for pct in [0,100] and width w >= 1 the bar holds w glyphs, `filled`
\* filled glyphs followed by w - filled empty ones, where filled is the
\* integer in [0,w] nearest to pct/100*w (the even one of two equally near),
\* in tiered and in rainbow mode alike.
C1_FillCounts ==
    (BarDone /\ bar_call.pct >= 0 /\ bar_call.pct <= 100) =>
        LET g == Glyphs(bar_out)
            f == FilledCount(bar_out)
            w == bar_call.width
            x == bar_call.pct * w      \* 100 * (pct / 100 * w)
        IN  /\ Len(g) = w
            /\ 0 <= f /\ f <= w
            /\ \A k \in 1..w : g[k] = IF k <= f THEN FILLED_GLYPH ELSE EMPTY_GLYPH
            /\ 200 * f - 100 <= 2 * x /\ 2 * x <= 200 * f + 100
            /\ (2 * x = 200 * f - 100 \/ 2 * x = 200 * f + 100) => f % 2 = 0

C1_Witness ==
    /\ BarDone
    /\ bar_call.rainbow
    /\ bar_call.pct = 4 /\ bar_call.width = 10
    /\ FilledCount(bar_out) = 0
    /\ Len(Glyphs(bar_out)) = 10

\* C2: a percentage below 0 gives the bar of pct = 0 and a percentage above
\* 100 the bar of pct = 100, whatever the theme, width, rainbow flag and
\* rotation offset.
C2_OutOfRangeClamped ==
    BarDone =>
        LET same(p) == render_bar_html(<<p, 1>>, THEME_CSS[bar_call.theme_name],
                                       bar_call.width, bar_call.rainbow,
                                       bar_call.color_offset)
        IN  /\ bar_call.pct < 0 => bar_out = same(0)
            /\ bar_call.pct > 100 => bar_out = same(100)

C2_Witness ==
    /\ BarDone
    /\ bar_call.pct = 0 - MaxOver
    /\ bar_call.width = MaxWidth
    /\ bar_call.pct * bar_call.width < -100
    /\ Len(Glyphs(bar_out)) = bar_call.width

\* C3: in tiered mode the filled region is one span whose color is the
\* theme's high color for pct >= 80, its mid color for 50 <= pct < 80 and its
\* low color for pct < 50, whatever the width and the number of filled cells.
C3_TierColor ==
    (BarDone /\ ~bar_call.rainbow) =>
        LET theme == THEME_CSS_INIT[bar_call.theme_name]
            p == bar_call.pct
        IN  /\ Len(bar_out) = 2
            /\ bar_out[1].body = Repeat(FILLED_GLYPH, FilledCount(bar_out))
            /\ p >= 80 => bar_out[1].color = theme.high
            /\ (50 <= p /\ p < 80) => bar_out[1].color = theme.mid
            /\ p < 50 => bar_out[1].color = theme.low

C3_Witness ==
    /\ BarDone
    /\ ~bar_call.rainbow
    /\ bar_call.pct = 50
    /\ bar_call.theme_name = "ocean"
    /\ bar_call.width = 1
    /\ bar_out[1].color = "#3b82f6"
    /\ FilledCount(bar_out) = 0

\* C4: in rainbow mode the filled cell at index j (from 0) of a bar with
\* rotation offset k has color RAINBOW_COLORS[(j + k) mod 10], so the color
\* has period 10 in j and in k; the empty region has the dim color in both
\* modes.
C4_RainbowCycle ==
    BarDone =>
        LET colors == CellColors(bar_out)
            glyphs == Glyphs(bar_out)
            f == FilledCount(bar_out)
            k == bar_call.color_offset
            shifted == CellColors(render_bar_html(<<bar_call.pct, 1>>,
                           THEME_CSS[bar_call.theme_name], bar_call.width,
                           bar_call.rainbow, k + 10))
        IN  /\ bar_call.rainbow =>
                /\ \A j \in 0..(f - 1) :
                      colors[j + 1] = RAINBOW_COLORS_INIT[((j + k) % 10) + 1]
                /\ \A j \in 0..(f - 11) : colors[j + 1] = colors[j + 11]
                /\ \A j \in 0..(f - 1) : colors[j + 1] = shifted[j + 1]
            /\ \A c \in 1..Len(glyphs) :
                  glyphs[c] = EMPTY_GLYPH => colors[c] = DIM_COLOR
            /\ bar_out[Len(bar_out)] =
                  [cls |-> "bar", color |-> DIM_COLOR,
                   body |-> Repeat(EMPTY_GLYPH, bar_call.width - f)]

C4_Witness ==
    /\ BarDone
    /\ bar_call.rainbow
    /\ bar_call.color_offset = 7
    /\ FilledCount(bar_out) = 11
    /\ bar_call.width = 12
    /\ CellColors(bar_out)[1] = "#ff00ff"
    /\ CellColors(bar_out)[11] = "#ff00ff"
    /\ CellColors(bar_out)[12] = DIM_COLOR

(***************************************************************************)
(* SpecCompose: one call of a composer on a descriptor drawn from the     *)
(* bounded sets.                                                           *)
(***************************************************************************)
PctSamples == {0, 45, 88}
ComposeThemes == {"ocean", "rainbow"}
ResetTimes == {<<>>, <<"2", "h", " ", "1", "0", "m">>}

\* Extra-usage strings: the driver's kind, zero, empty, and non-numeric ones.
ExtraPairs ==
    {<<<<>>, <<>>>>,
     <<<<"£", "3", ".", "1", "0">>, <<"£", "3", "7", ".", "0", "0">>>>,
     <<<<"£", "1", "8", ".", "5", "0">>, <<"£", "3", "7", ".", "0", "0">>>>,
     <<<<"£", "0", ".", "0", "0">>, <<"£", "0", ".", "0", "0">>>>,
     <<<<"£", "5">>, <<"0">>>>,
     <<<<"a", "b", "c">>, <<"£", "3", "7", ".", "0", "0">>>>,
     <<<<"£", "3", ".", "1", "0">>, <<"£">>>>,
     <<<<"£", "1", ".", "2", ".", "3">>, <<"£", "0">>>>,
     <<<<>>, <<"£", "3", "7", ".", "0", "0">>>>,
     <<<<"£", "3", ".", "1", "0">>, <<>>>>}

FrameCalls ==
    {[fn |-> "frame", theme_name |-> tn, session_pct |-> sp, weekly_pct |-> wp,
      ctx_pct |-> cp, reset_time |-> rt, plan |-> "Max 20x",
      model |-> "Opus 4.6", frame_num |-> 1, total_frames |-> 46,
      desc |-> "low usage", is_rainbow |-> rb, color_offset |-> k,
      extra_used |-> ex[1], extra_limit |-> ex[2], show_update |-> su] :
        tn \in ComposeThemes, sp \in PctSamples, wp \in PctSamples,
        cp \in PctSamples, rt \in ResetTimes, rb \in BOOLEAN,
        k \in 0..MaxOffset, ex \in ExtraPairs, su \in BOOLEAN}

StatuslineCalls ==
    {[fn |-> "statusline", theme_name |-> tn, session_pct |-> sp,
      weekly_pct |-> wp, ctx_pct |-> cp, reset_time |-> rt,
      plan |-> "Max 20x", model |-> "Opus 4.6", frame_num |-> 1,
      total_frames |-> 37, is_rainbow |-> rb, color_offset |-> k,
      show_update |-> su, show_claude_update |-> scu] :
        tn \in ComposeThemes, sp \in PctSamples, wp \in PctSamples,
        cp \in PctSamples, rt \in ResetTimes, rb \in BOOLEAN,
        k \in 0..MaxOffset, su \in BOOLEAN, scu \in BOOLEAN}

\* The outcome of the composer call c, with the tables as they are now.
Outcome(c) ==
    IF c.fn = "frame"
    THEN generate_frame_html(c.theme_name, THEME_CSS[c.theme_name],
             c.session_pct, c.weekly_pct, c.ctx_pct, c.reset_time, c.plan,
             c.model, c.frame_num, c.total_frames, c.desc, c.is_rainbow,
             c.color_offset, c.extra_used, c.extra_limit, c.show_update)
    ELSE generate_statusline_html(c.theme_name, THEME_CSS[c.theme_name],
             c.session_pct, c.weekly_pct, c.ctx_pct, c.reset_time, c.plan,
             c.model, c.frame_num, c.total_frames, c.is_rainbow,
             c.color_offset, c.show_update, c.show_claude_update)

InitCompose ==
    /\ GlobalsInit
    /\ BarIdle
    /\ call \in FrameCalls \cup StatuslineCalls
    /\ doc = [kind |-> "pending"]
    /\ composed = <<>>
    /\ MainIdle

ComposeFrame ==
    /\ call.fn = "frame"
    /\ doc.kind = "pending"
    /\ doc' = Outcome(call)
    /\ UNCHANGED <<globals, barVars, call, composed, mainVars>>

ComposeStatusline ==
    /\ call.fn = "statusline"
    /\ doc.kind = "pending"
    /\ doc' = Outcome(call)
    /\ UNCHANGED <<globals, barVars, call, composed, mainVars>>

NextCompose == ComposeFrame \/ ComposeStatusline

SpecCompose == InitCompose /\ [][NextCompose]_vars

Returned == doc.kind \in {"frame", "statusline"}
Supplied == call.extra_used # <<>> /\ call.extra_limit # <<>>

HasLabel(status, label) == \E k \in 1..Len(status) : status[k] = Sl(<<label>>)

\* The run of bar spans that follows the label.
BarAfter(status, label) ==
    LET p == CHOOSE k \in 1..Len(status) : status[k] = Sl(<<label>>)
        q == CHOOSE k \in (p + 1)..Len(status) :
                 /\ status[k].cls # "bar"
                 /\ \A m \in (p + 1)..(k - 1) : status[m].cls = "bar"
    IN  SubSeq(status, p + 1, q - 1)

\* C5: both composers render the session, weekly and context bars at width
\* 10 with the frame's rainbow flag and the offsets k, k+3, k+6; a document of
\* generate_frame_html holds an extra-usage bar, rendered with offset k+9,
\* exactly when both extra strings are supplied; a document of
\* generate_statusline_html holds none.
C5_BarOffsets ==
    Returned =>
        LET theme == THEME_CSS_INIT[call.theme_name]
            k == call.color_offset
            bar(p, off) == render_bar_html(p, theme, 10, call.is_rainbow, off)
        IN  /\ BarAfter(doc.status, "Session ") = bar(<<call.session_pct, 1>>, k)
            /\ BarAfter(doc.status, "Weekly ") = bar(<<call.weekly_pct, 1>>, k + 3)
            /\ BarAfter(doc.status, "Context ") = bar(<<call.ctx_pct, 1>>, k + 6)
            /\ call.fn = "statusline" => ~HasLabel(doc.status, "Extra ")
            /\ call.fn = "frame" =>
                  /\ HasLabel(doc.status, "Extra ") <=> Supplied
                  /\ Supplied =>
                        LET p == extra_pct(call.extra_used, call.extra_limit)
                        IN  BarAfter(doc.status, "Extra ")
                                = bar(<<p.num, p.den>>, k + 9)

C5_Witness ==
    /\ doc.kind = "frame"
    /\ call.is_rainbow
    /\ call.color_offset = 4
    /\ call.session_pct = 88 /\ call.weekly_pct = 45 /\ call.ctx_pct = 88
    /\ Supplied
    /\ BarAfter(doc.status, "Session ")[1].color = "#00ccff"
    /\ BarAfter(doc.status, "Weekly ")[1].color = "#ff00ff"
    /\ BarAfter(doc.status, "Context ")[1].color = "#ff0000"
    /\ BarAfter(doc.status, "Extra ")[1].color = "#00ff00"

NonNumeric(s) == ~PyFloat(StripPound(s)).ok
ParsesToZero(s) == PyFloat(StripPound(s)).ok /\ PyFloat(StripPound(s)).num = 0
BadExtraPair ==
    \/ NonNumeric(call.extra_used)
    \/ NonNumeric(call.extra_limit)
    \/ ParsesToZero(call.extra_limit)

\* C6 as stated: generate_frame_html called with an extra-usage pair whose
\* limit parses to zero, or in which either value is not numeric once the
\* currency prefix is stripped, fails with InvalidExtraUsageError before any
\* document is returned.
C6_AsStated ==
    (call.fn = "frame" /\ doc.kind # "pending" /\ BadExtraPair) =>
        doc = Raise("InvalidExtraUsageError")

\* C6 as amended: with both strings non-empty, a pair in which either value
\* is not numeric fails with ValueError, and otherwise a pair whose limit
\* parses to zero fails with ZeroDivisionError; the exception leaves the
\* function and no document is returned.  With an empty string in the pair
\* the extra-usage bar is skipped and the call returns its document.
C6_BuiltinErrors ==
    (call.fn = "frame" /\ doc.kind # "pending") =>
        /\ (Supplied /\ (NonNumeric(call.extra_used) \/ NonNumeric(call.extra_limit)))
              => doc = Raise("ValueError")
        /\ (Supplied /\ ~NonNumeric(call.extra_used) /\ ParsesToZero(call.extra_limit))
              => doc = Raise("ZeroDivisionError")
        /\ ~Supplied => doc.kind = "frame"
        /\ doc.kind = "raise" => (Supplied /\ BadExtraPair)

C6_Witness ==
    /\ call.fn = "frame"
    /\ call.extra_used = <<"£", "0", ".", "0", "0">>
    /\ call.extra_limit = <<"£", "0", ".", "0", "0">>
    /\ doc = Raise("ZeroDivisionError")

\* C7: generate_statusline_html appends the Pulse Update badge exactly when
\* show_update is set and the Claude Update badge exactly when
\* show_claude_update is set; Pulse Update comes first; every badge comes
\* after the Context segment and before the plan and model labels.
C7_Badges ==
    doc.kind = "statusline" =>
        LET st == doc.status
            n == Len(st)
            badges == {k \in 1..n : st[k].cls = "bold"}
            pulse == {k \in 1..n : st[k] = Badge("Pulse Update")}
            claude == {k \in 1..n : st[k] = Badge("Claude Update")}
            ctxText == CHOOSE k \in 1..n :
                           /\ k > 1 /\ st[k - 1].cls = "bar"
                           /\ \A m \in k..n : st[m].cls # "bar"
        IN  /\ Cardinality(pulse) = IF call.show_update THEN 1 ELSE 0
            /\ Cardinality(claude) = IF call.show_claude_update THEN 1 ELSE 0
            /\ badges = pulse \cup claude
            /\ \A p \in pulse, c \in claude : p < c
            /\ st[ctxText] = Sl(PctText(call.ctx_pct))
            /\ SubSeq(st, n - 3, n) = <<sep, Sl(<<call.plan>>), sep, Sl(<<call.model>>)>>
            /\ \A b \in badges : ctxText < b /\ b < n - 3 /\ st[b - 1] = sep

C7_Witness ==
    /\ doc.kind = "statusline"
    /\ call.show_update /\ call.show_claude_update
    /\ \E p, c \in 1..Len(doc.status) :
          /\ p < c
          /\ doc.status[p] = Badge("Pulse Update")
          /\ doc.status[c] = Badge("Claude Update")

(***************************************************************************)
(* main: the scenario tables.                                              *)
(***************************************************************************)
themes_to_show ==
    <<"default", "ocean", "sunset", "neon", "frost", "ember", "candy",
      "pride", "mono">>

\* (session%, weekly%, ctx%, reset_time, desc, extra_used, extra_limit)
scenarios ==
    <<[session_pct |-> 12, weekly_pct |-> 6, ctx_pct |-> 8,
       reset |-> <<"4", "h", " ", "5", "2", "m">>,
       desc |-> "low usage",
       eu |-> <<"£", "3", ".", "1", "0">>,
       el |-> <<"£", "3", "7", ".", "0", "0">>],
      [session_pct |-> 38, weekly_pct |-> 22, ctx_pct |-> 30,
       reset |-> <<"3", "h", " ", "1", "4", "m">>,
       desc |-> "warming up",
       eu |-> <<"£", "8", ".", "2", "0">>,
       el |-> <<"£", "3", "7", ".", "0", "0">>],
      [session_pct |-> 62, weekly_pct |-> 45, ctx_pct |-> 55,
       reset |-> <<"1", "h", " ", "4", "8", "m">>,
       desc |-> "active session",
       eu |-> <<"£", "2", "2", ".", "5", "0">>,
       el |-> <<"£", "3", "7", ".", "0", "0">>],
      [session_pct |-> 88, weekly_pct |-> 68, ctx_pct |-> 82,
       reset |-> <<"0", "h", " ", "2", "2", "m">>,
       desc |-> "near limit",
       eu |-> <<"£", "3", "4", ".", "8", "0">>,
       el |-> <<"£", "3", "7", ".", "0", "0">>]>>

update_scenarios ==
    <<[session_pct |-> 42, weekly_pct |-> 28, ctx_pct |-> 35,
       reset |-> <<"2", "h", " ", "4", "0", "m">>,
       desc |-> "with update"],
      [session_pct |-> 65, weekly_pct |-> 50, ctx_pct |-> 60,
       reset |-> <<"1", "h", " ", "1", "5", "m">>,
       desc |-> "with update"],
      [session_pct |-> 85, weekly_pct |-> 72, ctx_pct |-> 78,
       reset |-> <<"0", "h", " ", "3", "0", "m">>,
       desc |-> "with update"]>>

cc_update_scenarios ==
    <<[session_pct |-> 42, weekly_pct |-> 28, ctx_pct |-> 35,
       reset |-> <<"2", "h", " ", "4", "0", "m">>,
       desc |-> "with claude update"],
      [session_pct |-> 65, weekly_pct |-> 50, ctx_pct |-> 60,
       reset |-> <<"1", "h", " ", "1", "5", "m">>,
       desc |-> "with claude update"],
      [session_pct |-> 85, weekly_pct |-> 72, ctx_pct |-> 78,
       reset |-> <<"0", "h", " ", "3", "0", "m">>,
       desc |-> "with claude update"]>>

\* The scenario table of generation run r.
ScenariosOf(r) ==
    IF r = 1 THEN scenarios
    ELSE IF r = 2 THEN update_scenarios
    ELSE cc_update_scenarios

SHIMMER_RESET == <<"2", "h", " ", "1", "0", "m">>
SHIMMER_EXTRA_USED == <<"£", "1", "8", ".", "5", "0">>
SHIMMER_EXTRA_LIMIT == <<"£", "3", "7", ".", "0", "0">>

(***************************************************************************)
(* main: three generation runs.  Run 1 is lines 541-593 (full mockup),     *)
(* run 2 lines 595-638 (Pulse Update status line), run 3 lines 640-683     *)
(* (Claude Update status line).  The variables that the code names         *)
(* frames_data / update_frames / cc_update_frames, tmp_dir / tmp_dir2 /    *)
(* tmp_dir3, ... are functions of the run.  The print calls and the        *)
(* assets directory are left out.                                          *)
(***************************************************************************)
\* The tuple appended for a theme and a scenario (lines 555-558, 605-606, 650-651).
TieredTuple(r, theme_name, sc) ==
    LET base == [theme_name |-> theme_name, theme |-> THEME_CSS[theme_name],
                 session_pct |-> sc.session_pct, weekly_pct |-> sc.weekly_pct,
                 ctx_pct |-> sc.ctx_pct, reset |-> sc.reset,
                 plan |-> "Max 20x", model |-> "Opus 4.6", desc |-> sc.desc,
                 is_rainbow |-> FALSE, color_offset |-> 0]
    IN  IF r = 1
        THEN [eu |-> sc.eu, el |-> sc.el] @@ base
        ELSE base

\* The tuple appended for a shimmer offset (lines 562-566, 610-613, 655-658).
RainbowTuple(r, off) ==
    LET base == [theme_name |-> "rainbow", theme |-> THEME_CSS["rainbow"],
                 session_pct |-> 55, weekly_pct |-> 38, ctx_pct |-> 45,
                 reset |-> SHIMMER_RESET, plan |-> "Max 20x",
                 model |-> "Opus 4.6",
                 desc |-> IF r = 1 THEN "animated shimmer" ELSE "shimmer",
                 is_rainbow |-> TRUE, color_offset |-> off]
    IN  IF r = 1
        THEN [eu |-> SHIMMER_EXTRA_USED, el |-> SHIMMER_EXTRA_LIMIT] @@ base
        ELSE base

\* The arguments of the composer call of run r for the tuple fd at index idx.
CallOf(r, fd, idx, tot) ==
    LET common == [theme_name |-> fd.theme_name, theme |-> fd.theme,
                   session_pct |-> fd.session_pct, weekly_pct |-> fd.weekly_pct,
                   ctx_pct |-> fd.ctx_pct, reset_time |-> fd.reset,
                   plan |-> fd.plan, model |-> fd.model,
                   frame_num |-> idx + 1, total_frames |-> tot,
                   is_rainbow |-> fd.is_rainbow, color_offset |-> fd.color_offset]
    IN  IF r = 1
        THEN [fn |-> "frame", desc |-> fd.desc, extra_used |-> fd.eu,
              extra_limit |-> fd.el, show_update |-> FALSE] @@ common
        ELSE [fn |-> "statusline", show_update |-> (r = 2),
              show_claude_update |-> (r = 3)] @@ common

\* What the composer call c returns or raises.
Compose(c) ==
    IF c.fn = "frame"
    THEN generate_frame_html(c.theme_name, c.theme, c.session_pct,
             c.weekly_pct, c.ctx_pct, c.reset_time, c.plan, c.model,
             c.frame_num, c.total_frames, c.desc, c.is_rainbow,
             c.color_offset, c.extra_used, c.extra_limit, c.show_update)
    ELSE generate_statusline_html(c.theme_name, c.theme, c.session_pct,
             c.weekly_pct, c.ctx_pct, c.reset_time, c.plan, c.model,
             c.frame_num, c.total_frames, c.is_rainbow, c.color_offset,
             c.show_update, c.show_claude_update)

\* f"frame_{i:03d}.html", f"update_{i:03d}.html", f"claude_update_{i:03d}.html"
frame_file_name(r, idx) ==
    <<IF r = 1 THEN "frame_" ELSE IF r = 2 THEN "update_" ELSE "claude_update_">>
    \o Fmt03d(idx) \o <<".html">>

\* str(directory / name)
PathStr(directory, name) == directory \o <<"/">> \o name

\* The names tempfile.mkdtemp() may return.
DirNames == {<<"/tmp/tmp">> \o Digits(k) : k \in 1..NumDirNames}

Range(seq) == {seq[k] : k \in 1..Len(seq)}

\* path.write_text(content): create or overwrite.
WriteText(path, content) ==
    /\ fs' = {f \in fs : f.path # path} \cup {[path |-> path, content |-> content]}
    /\ writes' = Append(writes, path)

InitMain ==
    /\ GlobalsInit
    /\ BarIdle
    /\ ComposeIdle
    /\ pc = "tiered"
    /\ run = 1
    /\ frames_data = [r \in 1..3 |-> <<>>]
    /\ t_idx = 1
    /\ s_idx = 1
    /\ offset = 0
    /\ tmp_dir = [r \in 1..3 |-> <<>>]
    /\ html_paths = [r \in 1..3 |-> <<>>]
    /\ total = [r \in 1..3 |-> 0]
    /\ i = 0
    /\ calls = [r \in 1..3 |-> <<>>]
    /\ fs = {}
    /\ writes = <<>>
    /\ dirs = <<>>

\* Faulty variant: the loops are nested the other way round (scenarios
\* outside, themes inside).
AppendTiered_scenario_major ==
    /\ pc = "tiered"
    /\ frames_data' = [frames_data EXCEPT ![run] =
           Append(@, TieredTuple(run, themes_to_show[t_idx],
                                 ScenariosOf(run)[s_idx]))]
    /\ IF t_idx < Len(themes_to_show)
       THEN t_idx' = t_idx + 1 /\ UNCHANGED <<s_idx, pc, offset>>
       ELSE IF s_idx < Len(ScenariosOf(run))
       THEN t_idx' = 1 /\ s_idx' = s_idx + 1 /\ UNCHANGED <<pc, offset>>
       ELSE pc' = "shimmer" /\ offset' = 0 /\ UNCHANGED <<t_idx, s_idx>>
    /\ UNCHANGED <<globals, barVars, composeVars, run, tmp_dir, html_paths,
                   total, i, calls, fs, writes, dirs>>

\* One append of the nested loops: for theme_name in themes_to_show: for ... in scenarios.
AppendTiered ==
    /\ pc = "tiered"
    /\ frames_data' = [frames_data EXCEPT ![run] =
           Append(@, TieredTuple(run, themes_to_show[t_idx],
                                 ScenariosOf(run)[s_idx]))]
    /\ IF s_idx < Len(ScenariosOf(run))
       THEN s_idx' = s_idx + 1 /\ UNCHANGED <<t_idx, pc, offset>>
       ELSE IF t_idx < Len(themes_to_show)
       THEN t_idx' = t_idx + 1 /\ s_idx' = 1 /\ UNCHANGED <<pc, offset>>
       ELSE pc' = "shimmer" /\ offset' = 0 /\ UNCHANGED <<t_idx, s_idx>>
    /\ UNCHANGED <<globals, barVars, composeVars, run, tmp_dir, html_paths,
                   total, i, calls, fs, writes, dirs>>

\* One append of: for offset in range(10).
AppendRainbow ==
    /\ pc = "shimmer"
    /\ frames_data' = [frames_data EXCEPT ![run] =
           Append(@, RainbowTuple(run, offset))]
    /\ IF offset + 1 < 10
       THEN offset' = offset + 1 /\ UNCHANGED pc
       ELSE pc' = "mkdtemp" /\ UNCHANGED offset
    /\ UNCHANGED <<globals, barVars, composeVars, run, t_idx, s_idx, tmp_dir,
                   html_paths, total, i, calls, fs, writes, dirs>>

\* tmp_dir = Path(tempfile.mkdtemp()); html_paths = []; total = len(frames_data)
\* mkdtemp creates a directory that did not exist.
Mkdtemp ==
    /\ pc = "mkdtemp"
    /\ \E d \in DirNames \ Range(dirs) :
          /\ tmp_dir' = [tmp_dir EXCEPT ![run] = d]
          /\ dirs' = Append(dirs, d)
    /\ html_paths' = [html_paths EXCEPT ![run] = <<>>]
    /\ total' = [total EXCEPT ![run] = Len(frames_data[run])]
    /\ i' = 0
    /\ pc' = IF Len(frames_data[run]) = 0 THEN "manifest" ELSE "generate"
    /\ UNCHANGED <<globals, barVars, composeVars, run, frames_data, t_idx,
                   s_idx, offset, calls, fs, writes>>

\* Faulty variant: the manifest is written inside the loop, after each frame.
GenerateFrame_manifest_in_loop ==
    /\ pc = "generate"
    /\ LET c == CallOf(run, frames_data[run][i + 1], i, total[run])
           html == Compose(c)
           html_path == PathStr(tmp_dir[run], frame_file_name(run, i))
           paths == Append(html_paths[run], html_path)
           manifest == PathStr(tmp_dir[run], <<"manifest.json">>)
       IN  /\ calls' = [calls EXCEPT ![run] = Append(@, c)]
           /\ fs' = {f \in fs : f.path \notin {html_path, manifest}}
                    \cup {[path |-> html_path, content |-> html],
                          [path |-> manifest,
                           content |-> [kind |-> "json", array |-> paths]]}
           /\ writes' = writes \o <<html_path, manifest>>
           /\ html_paths' = [html_paths EXCEPT ![run] = paths]
           /\ i' = i + 1
           /\ pc' = IF i + 1 < total[run] THEN "generate" ELSE "manifest"
    /\ UNCHANGED <<globals, barVars, composeVars, run, frames_data, t_idx,
                   s_idx, offset, tmp_dir, total, dirs>>

\* One iteration of: for i, (...) in enumerate(frames_data).  An exception
\* raised by the composer is not caught: it leaves main.
GenerateFrame ==
    /\ pc = "generate"
    /\ LET c == CallOf(run, frames_data[run][i + 1], i, total[run])
           html == Compose(c)
           html_path == PathStr(tmp_dir[run], frame_file_name(run, i))
       IN  /\ calls' = [calls EXCEPT ![run] = Append(@, c)]
           /\ IF html.kind = "raise"
              THEN /\ pc' = "raised"
                   /\ UNCHANGED <<fs, writes, html_paths, i>>
              ELSE /\ WriteText(html_path, html)
                   /\ html_paths' = [html_paths EXCEPT ![run] =
                                        Append(@, html_path)]
                   /\ i' = i + 1
                   /\ pc' = IF i + 1 < total[run] THEN "generate" ELSE "manifest"
    /\ UNCHANGED <<globals, barVars, composeVars, run, frames_data, t_idx,
                   s_idx, offset, tmp_dir, total, dirs>>

\* write_text raises OSError (a full disk, a removed directory): the
\* exception is not caught and leaves main.
WriteTextRaises ==
    /\ pc \in {"generate", "manifest"}
    /\ pc' = "raised"
    /\ calls' = IF pc = "generate"
                THEN [calls EXCEPT ![run] =
                         Append(@, CallOf(run, frames_data[run][i + 1], i,
                                          total[run]))]
                ELSE calls
    /\ UNCHANGED <<globals, barVars, composeVars, run, frames_data, t_idx,
                   s_idx, offset, tmp_dir, html_paths, total, i, fs, writes,
                   dirs>>

\* manifest.write_text(json.dumps(html_paths)), then on to the next run.
WriteManifest ==
    /\ pc = "manifest"
    /\ WriteText(PathStr(tmp_dir[run], <<"manifest.json">>),
                 [kind |-> "json", array |-> html_paths[run]])
    /\ IF run < 3
       THEN /\ run' = run + 1
            /\ pc' = "tiered"
            /\ t_idx' = 1
            /\ s_idx' = 1
       ELSE /\ pc' = "done"
            /\ UNCHANGED <<run, t_idx, s_idx>>
    /\ UNCHANGED <<globals, barVars, composeVars, frames_data, offset, tmp_dir,
                   html_paths, total, i, calls, dirs>>

Next ==
    \/ AppendTiered
    \/ AppendRainbow
    \/ Mkdtemp
    \/ GenerateFrame
    \/ WriteTextRaises
    \/ WriteManifest

Spec == InitMain /\ [][Next]_vars

\* The descriptor expected at position k (from 1) of run r: themes outside,
\* scenarios inside, then the ten shimmer offsets.
ExpectedAt(r, k) ==
    LET ns == Len(ScenariosOf(r))
        tiered == Len(themes_to_show) * ns
    IN  IF k <= tiered
        THEN LET sc == ScenariosOf(r)[((k - 1) % ns) + 1]
             IN  [theme_name |-> themes_to_show[((k - 1) \div ns) + 1],
                  session_pct |-> sc.session_pct, weekly_pct |-> sc.weekly_pct,
                  ctx_pct |-> sc.ctx_pct, reset |-> sc.reset,
                  is_rainbow |-> FALSE, color_offset |-> 0]
        ELSE [theme_name |-> "rainbow", session_pct |-> 55, weekly_pct |-> 38,
              ctx_pct |-> 45, reset |-> SHIMMER_RESET,
              is_rainbow |-> TRUE, color_offset |-> k - tiered - 1]

RunLength(r) == Len(themes_to_show) * Len(ScenariosOf(r)) + 10

\* C8: in each run the descriptors are, for every theme in registry order
\* and within it every scenario in declaration order, tiered with offset 0,
\* followed by exactly ten rainbow descriptors with offsets 0..9; no tiered
\* descriptor follows a rainbow one; the frame composed at position i (from
\* 0) carries frame index i+1 and the length of the sequence as total.
C8_DescriptorOrder ==
    \A r \in 1..3 :
        LET fd == frames_data[r]
            cs == calls[r]
        IN  /\ Len(fd) <= RunLength(r)
            /\ Len(cs) <= Len(fd)
            /\ \A k \in 1..Len(fd) :
                  /\ ExpectedAt(r, k) =
                        [theme_name |-> fd[k].theme_name,
                         session_pct |-> fd[k].session_pct,
                         weekly_pct |-> fd[k].weekly_pct,
                         ctx_pct |-> fd[k].ctx_pct, reset |-> fd[k].reset,
                         is_rainbow |-> fd[k].is_rainbow,
                         color_offset |-> fd[k].color_offset]
                  /\ fd[k].theme = THEME_CSS_INIT[fd[k].theme_name]
            /\ \A a, b \in 1..Len(fd) : (a < b /\ fd[a].is_rainbow) => fd[b].is_rainbow
            /\ Len(cs) > 0 =>
                  /\ Len(fd) = RunLength(r)
                  /\ Cardinality({k \in 1..Len(fd) : fd[k].is_rainbow}) = 10
            /\ \A k \in 1..Len(cs) :
                  /\ cs[k].frame_num = k
                  /\ cs[k].total_frames = Len(fd)
                  /\ cs[k].theme_name = fd[k].theme_name
                  /\ cs[k].theme = fd[k].theme
                  /\ cs[k].session_pct = fd[k].session_pct
                  /\ cs[k].weekly_pct = fd[k].weekly_pct
                  /\ cs[k].ctx_pct = fd[k].ctx_pct
                  /\ cs[k].reset_time = fd[k].reset
                  /\ cs[k].is_rainbow = fd[k].is_rainbow
                  /\ cs[k].color_offset = fd[k].color_offset
            /\ pc = "done" => Len(cs) = RunLength(r)

C8_Witness ==
    /\ pc = "done"
    /\ Len(calls[1]) = 46 /\ Len(calls[2]) = 37 /\ Len(calls[3]) = 37
    /\ calls[1][36].theme_name = "mono" /\ ~calls[1][36].is_rainbow
    /\ calls[1][37].is_rainbow /\ calls[1][37].color_offset = 0
    /\ calls[1][46].color_offset = 9 /\ calls[1][46].frame_num = 46
    /\ calls[3][5].theme_name = "ocean" /\ calls[3][5].session_pct = 65

ManifestPath(r) == PathStr(tmp_dir[r], <<"manifest.json">>)
ManifestWrites(r) == {k \in 1..Len(writes) : writes[k] = ManifestPath(r)}
InDirectory(path, directory) ==
    /\ Len(path) > Len(directory) + 1
    /\ SubSeq(path, 1, Len(directory) + 1) = directory \o <<"/">>
    /\ \A k \in (Len(directory) + 2)..Len(path) : path[k] # "/"
ContentAt(path) == (CHOOSE f \in fs : f.path = path).content

\* C9: in each run the manifest is written at most once, and once when main
\* returns; when it is written every frame file of the run has been written
\* before it, in generation order; it lists one path per composed frame, the
\* k-th path being the file that holds the k-th composed document; the paths
\* are pairwise distinct and lie in the run's own scratch directory; after an
\* exception has left the generation loop the run's manifest is not written.
C9_ManifestAfterFrames ==
    \A r \in 1..3 :
        tmp_dir[r] # <<>> =>
            LET mw == ManifestWrites(r)
                hp == html_paths[r]
            IN  /\ Cardinality(mw) <= 1
                /\ pc = "done" => Cardinality(mw) = 1
                /\ (pc = "raised" /\ run = r) => mw = {}
                /\ \A q \in 1..3 : (q # r /\ tmp_dir[q] # <<>>) => tmp_dir[q] # tmp_dir[r]
                /\ mw # {} =>
                      LET m == CHOOSE k \in mw : TRUE
                          at(k) == CHOOSE j \in 1..Len(writes) : writes[j] = hp[k]
                      IN  /\ Len(calls[r]) = Len(frames_data[r])
                          /\ Len(hp) = Len(calls[r])
                          /\ ContentAt(ManifestPath(r)) = [kind |-> "json", array |-> hp]
                          /\ \A k \in 1..Len(hp) :
                                /\ \E j \in 1..(m - 1) : writes[j] = hp[k]
                                /\ InDirectory(hp[k], tmp_dir[r])
                                /\ \A q \in 1..3 : q # r => ~InDirectory(hp[k], tmp_dir[q])
                                /\ Compose(calls[r][k]).kind # "raise"
                                /\ ContentAt(hp[k]) = Compose(calls[r][k])
                          /\ \A a, b \in 1..Len(hp) : a < b => hp[a] # hp[b]
                          /\ \A k \in 1..(Len(hp) - 1) : at(k) < at(k + 1)
                          /\ \A j \in (m + 1)..Len(writes) :
                                ~InDirectory(writes[j], tmp_dir[r])

C9_Witness ==
    /\ pc = "done"
    /\ Cardinality(ManifestWrites(1)) = 1
    /\ Len(ContentAt(ManifestPath(1)).array) = 46
    /\ Len(ContentAt(ManifestPath(2)).array) = 37
    /\ Len(ContentAt(ManifestPath(3)).array) = 37
    /\ ContentAt(ManifestPath(3)).array[37] =
          PathStr(tmp_dir[3], <<"claude_update_", "0", "3", "6", ".html">>)

(***************************************************************************)
(* SpecPure: up to MaxCalls calls of the three rendering functions, in any *)
(* order, each logged with what it returned.  THEME_CSS and RAINBOW_COLORS *)
(* are module globals that every call reads.                               *)
(***************************************************************************)
PureBarCalls ==
    {[fn |-> "bar", pct |-> 55, theme_name |-> "rainbow", width |-> 10,
      rainbow |-> TRUE, color_offset |-> k] : k \in {0, 3}}

PureFrameCalls ==
    {c \in FrameCalls :
        /\ c.theme_name = "rainbow" /\ c.is_rainbow
        /\ c.session_pct = 88 /\ c.weekly_pct = 45 /\ c.ctx_pct = 0
        /\ c.reset_time # <<>> /\ ~c.show_update
        /\ c.color_offset \in {0, 1}
        /\ c.extra_used = SHIMMER_EXTRA_USED /\ c.extra_limit = SHIMMER_EXTRA_LIMIT}

PureStatuslineCalls ==
    {c \in StatuslineCalls :
        /\ c.theme_name = "ocean" /\ c.is_rainbow \in BOOLEAN
        /\ c.session_pct = 88 /\ c.weekly_pct = 45 /\ c.ctx_pct = 0
        /\ c.reset_time = <<>> /\ c.show_update /\ ~c.show_claude_update
        /\ c.color_offset = 1}

\* What call c returns with the tables as they are now.
PureOutcome(c) ==
    IF c.fn = "bar"
    THEN [kind |-> "bar",
          spans |-> render_bar_html(<<c.pct, 1>>, THEME_CSS[c.theme_name],
                                    c.width, c.rainbow, c.color_offset)]
    ELSE Outcome(c)

InitPure ==
    /\ GlobalsInit
    /\ BarIdle
    /\ ComposeIdle
    /\ MainIdle

\* Faulty variant: the shimmer is advanced by rotating the palette in place.
CallRenderBar_rotating_palette ==
    /\ Len(composed) < MaxCalls
    /\ \E c \in PureBarCalls :
          composed' = Append(composed, <<c, PureOutcome(c)>>)
    /\ RAINBOW_COLORS' = Tail(RAINBOW_COLORS) \o <<Head(RAINBOW_COLORS)>>
    /\ UNCHANGED <<THEME_CSS, barVars, call, doc, mainVars>>

\* render_bar_html assigns only its locals.
CallRenderBar ==
    /\ Len(composed) < MaxCalls
    /\ \E c \in PureBarCalls :
          composed' = Append(composed, <<c, PureOutcome(c)>>)
    /\ UNCHANGED <<globals, barVars, call, doc, mainVars>>

\* generate_frame_html assigns only its locals.
CallFrame ==
    /\ Len(composed) < MaxCalls
    /\ \E c \in PureFrameCalls :
          composed' = Append(composed, <<c, PureOutcome(c)>>)
    /\ UNCHANGED <<globals, barVars, call, doc, mainVars>>

\* generate_statusline_html assigns only its locals.
CallStatusline ==
    /\ Len(composed) < MaxCalls
    /\ \E c \in PureStatuslineCalls :
          composed' = Append(composed, <<c, PureOutcome(c)>>)
    /\ UNCHANGED <<globals, barVars, call, doc, mainVars>>

NextPure == CallRenderBar \/ CallFrame \/ CallStatusline

SpecPure == InitPure /\ [][NextPure]_vars

\* C10: two calls with the same arguments return the same result, whatever
\* calls were made in between, and no call changes THEME_CSS or
\* RAINBOW_COLORS.
C10_Deterministic ==
    /\ THEME_CSS = THEME_CSS_INIT
    /\ RAINBOW_COLORS = RAINBOW_COLORS_INIT
    /\ \A a, b \in 1..Len(composed) :
          composed[a][1] = composed[b][1] => composed[a][2] = composed[b][2]

C10_Witness ==
    \E a, b, c \in 1..Len(composed) :
        /\ a < b /\ b < c
        /\ composed[a][1] = composed[c][1]
        /\ composed[a][1].fn = "statusline"
        /\ composed[b][1].fn = "bar"
        /\ composed[a][2] = composed[c][2]
        /\ composed[a][2].kind = "statusline"

(***************************************************************************)
(* The countdown field of the calls main makes.                            *)
(***************************************************************************)
\* The fragment that follows the session bar: f" {sp}{reset_str}".
SessionText(status) ==
    LET q == CHOOSE k \in 2..Len(status) :
                 /\ status[k].cls # "bar"
                 /\ \A m \in 2..(k - 1) : status[m].cls = "bar"
    IN  [at |-> q, body |-> status[q].body]

\* What follows " NNN%" in the session text: the countdown field.
CountdownField(status) ==
    LET body == SessionText(status).body IN SubSeq(body, 6, Len(body))

\* The fragments after the session text.
AfterSessionText(status) ==
    SubSeq(status, SessionText(status).at + 1, Len(status))

\* The call main made last in run r.
LastCall(r) == calls[r][Len(calls[r])]

\* C11: in both composers, for every countdown string main supplies, the
\* countdown field after the session percentage is 7 characters wide, and
\* the same call without a countdown renders exactly 7 spaces there, so the
\* session text has the same width and the segments after it are unchanged.
C11_CountdownWidth ==
    \A r \in 1..3 :
        Len(calls[r]) > 0 =>
            LET c == LastCall(r)
                shown == Compose(c).status
                absent == Compose([c EXCEPT !.reset_time = <<>>]).status
            IN  /\ c.reset_time # <<>>
                /\ SubSeq(SessionText(shown).body, 1, 5)
                      = <<" ">> \o Fmt3d(c.session_pct) \o <<"%">>
                /\ CountdownField(shown) = <<" ">> \o c.reset_time
                /\ Len(CountdownField(shown)) = 7
                /\ CountdownField(absent) = <<" ", " ", " ", " ", " ", " ", " ">>
                /\ Len(SessionText(shown).body) = Len(SessionText(absent).body)
                /\ SessionText(shown).at = SessionText(absent).at
                /\ AfterSessionText(shown) = AfterSessionText(absent)

C11_Witness ==
    /\ Len(calls[1]) = 46 /\ Len(calls[2]) = 37 /\ Len(calls[3]) = 2
    /\ LastCall(1).fn = "frame"
    /\ CountdownField(Compose(LastCall(1)).status)
          = <<" ", "2", "h", " ", "1", "0", "m">>
    /\ LastCall(3).fn = "statusline"
    /\ CountdownField(Compose(LastCall(3)).status)
          = <<" ", "1", "h", " ", "1", "5", "m">>
    /\ CountdownField(Compose([LastCall(3) EXCEPT !.reset_time = <<>>]).status)
          = Repeat(" ", 7)

(***************************************************************************)
(* Halfway percentages.                                                    *)
(***************************************************************************)
\* The filled cells of the bar render_bar_html returns for pct at width 10.
FilledAtWidth10(pct, rainbow) ==
    FilledCount(render_bar_html(<<pct, 1>>, THEME_CSS["default"], 10, rainbow, 0))

\* The filled cells of the bar that follows the label in the document of c.
FilledInFrame(c, label) == FilledCount(BarAfter(Compose(c).status, label))

\* C12: a percentage whose tenth lies halfway between two integers gives the
\* even neighbour: at width 10 the percentages 5, 15, ..., 95 give 0, 2, 2,
\* 4, 4, 6, 6, 8, 8, 10 filled cells; so the frames main composes show 8
\* cells for session 85%, 6 for session 65%, 4 for context 35%, and the
\* shimmer frames 4 for context 45% and 6 for session 55%.
C12_HalfToEven ==
    /\ \A n \in 0..9 : \A rainbow \in BOOLEAN :
          FilledAtWidth10(10 * n + 5, rainbow)
              = <<0, 2, 2, 4, 4, 6, 6, 8, 8, 10>>[n + 1]
    /\ \A r \in 1..3 :
          Len(calls[r]) > 0 =>
              LET c == LastCall(r)
              IN  /\ c.session_pct = 85 => FilledInFrame(c, "Session ") = 8
                  /\ c.session_pct = 65 => FilledInFrame(c, "Session ") = 6
                  /\ c.ctx_pct = 35 => FilledInFrame(c, "Context ") = 4
                  /\ c.is_rainbow =>
                        /\ c.session_pct = 55 /\ c.ctx_pct = 45
                        /\ FilledInFrame(c, "Session ") = 6
                        /\ FilledInFrame(c, "Context ") = 4
                  /\ \A b \in {<<c.session_pct, "Session ">>,
                               <<c.weekly_pct, "Weekly ">>,
                               <<c.ctx_pct, "Context ">>} :
                        b[1] % 10 = 5 =>
                            /\ FilledInFrame(c, b[2]) % 2 = 0
                            /\ 10 * FilledInFrame(c, b[2]) \in {b[1] - 5, b[1] + 5}

C12_Witness ==
    /\ Len(calls[1]) = 46 /\ Len(calls[2]) = 37 /\ Len(calls[3]) = 3
    /\ LastCall(1).is_rainbow /\ LastCall(1).color_offset = 9
    /\ FilledInFrame(LastCall(1), "Session ") = 6
    /\ FilledInFrame(LastCall(1), "Context ") = 4
    /\ LastCall(3).session_pct = 85
    /\ FilledInFrame(LastCall(3), "Session ") = 8

====
